---- MODULE Spec2Model ----
(***************************************************************************)
(* A model of plural's fully connected manifold (src/manifolds/fc.rs):     *)
(* Layer, Manifold and the training loop, over a shared Substrate pool.    *)
(*                                                                         *)
(* Numbers.  f64 values of the pool, the weights, the inputs and the       *)
(* gradients are modelled by exact integers; the loss history, the         *)
(* learning rate, the decay and min_delta by exact rationals <<n, d>>      *)
(* with d > 0, and <<0, 0>> for NaN.  Update steps are explored at         *)
(* integral learning rates only (see backwards and train), which keeps     *)
(* the pool integral.                                                      *)
(*                                                                         *)
(* Arrays.  An Array1 is a sequence; an Array2 is a sequence of rows.      *)
(* Index arrays hold 0-based pool slots, as in the source.                 *)
(***************************************************************************)
EXTENDS Integers, Sequences, FiniteSets, TLC

(***************************************************************************)
(* Bounds of the exploration.                                              *)
(***************************************************************************)
MaxSteps == 2        \* Manifold::backwards calls explored on one Manifold
MaxEpochs == 2       \* largest epoch budget set_epochs is called with
MaxHistory == 3      \* train is started while fewer losses are recorded
MaxWeaves == 2       \* weave calls explored on one Manifold

Slots == {0, 1}                  \* the substrate's slots, 0 .. size - 1
PoolSize == Cardinality(Slots)   \* substrate.size
TargetValues == {0, 1}           \* entries of target and prediction vectors
Topologies == { <<1, 1, <<1>>>>, <<2, 1, <<>>>> }  \* (d_in, d_out, layers)

(***************************************************************************)
(* Program constants: the defaults of Manifold::new / Manifold::dynamic.   *)
(***************************************************************************)
DefaultEpochs == 1000
DefaultSampleSize == 10
DynamicSampleSize == 1
DefaultLearningRate == <<1, 1000>>
DefaultDecay == <<1, 1>>

(***************************************************************************)
(* Exact rationals with NaN, for f64 quotients.                            *)
(***************************************************************************)
NaN == <<0, 0>>

Abs(n) == IF n < 0 THEN -n ELSE n

RECURSIVE GCD(_, _)
GCD(a, b) == IF b = 0 THEN a ELSE GCD(b, a % b)

RNorm(n, d) ==
    IF d = 0 THEN NaN
    ELSE LET s == IF d < 0 THEN -1 ELSE 1
             g == GCD(Abs(n), Abs(d))
         IN  <<(s * n) \div g, (s * d) \div g>>

RInt(n) == <<n, 1>>
RIsNaN(a) == a[2] = 0
RIsInt(a) == a[2] = 1
RAdd(a, b) == IF RIsNaN(a) \/ RIsNaN(b) THEN NaN
              ELSE RNorm(a[1] * b[2] + b[1] * a[2], a[2] * b[2])
RSub(a, b) == IF RIsNaN(a) \/ RIsNaN(b) THEN NaN
              ELSE RNorm(a[1] * b[2] - b[1] * a[2], a[2] * b[2])
RMul(a, b) == IF RIsNaN(a) \/ RIsNaN(b) THEN NaN
              ELSE RNorm(a[1] * b[1], a[2] * b[2])
\* a / k for a count k; the only quotient by zero the program forms is 0.0 / 0.0
RDivCount(a, k) == IF RIsNaN(a) \/ k = 0 THEN NaN ELSE RNorm(a[1], a[2] * k)
\* IEEE comparison: false as soon as one side is NaN
RLess(a, b) == ~RIsNaN(a) /\ ~RIsNaN(b) /\ a[1] * b[2] < b[1] * a[2]

RECURSIVE RSum(_)
RSum(s) == IF s = <<>> THEN RInt(0) ELSE RAdd(RSum(SubSeq(s, 1, Len(s) - 1)), s[Len(s)])

(***************************************************************************)
(* ndarray arrays.                                                         *)
(***************************************************************************)
Rows(m) == Len(m)
Cols(m) == IF Len(m) = 0 THEN 0 ELSE Len(m[1])
Shape(m) == <<Rows(m), Cols(m)>>
Zeros1(n) == [j \in 1 .. n |-> 0]
Zeros2(r, c) == [i \in 1 .. r |-> [j \in 1 .. c |-> 0]]
Transpose(m) == [j \in 1 .. Cols(m) |-> [i \in 1 .. Rows(m) |-> m[i][j]]]

RECURSIVE SumTo(_, _)
SumTo(f, n) == IF n = 0 THEN 0 ELSE SumTo(f, n - 1) + f[n]

\* a.dot(b), defined when Cols(a) = Rows(b)
Dot(a, b) ==
    [i \in 1 .. Rows(a) |-> [j \in 1 .. Cols(b) |->
        SumTo([k \in 1 .. Rows(b) |-> a[i][k] * b[k][j]], Rows(b))]]

Sub2(a, b) == [i \in 1 .. Rows(a) |-> [j \in 1 .. Cols(a) |-> a[i][j] - b[i][j]]]
Sub1(a, b) == [j \in 1 .. Len(a) |-> a[j] - b[j]]
Add1(a, b) == [j \in 1 .. Len(a) |-> a[j] + b[j]]
Mul2(a, b) == [i \in 1 .. Rows(a) |-> [j \in 1 .. Cols(a) |-> a[i][j] * b[i][j]]]
\* m + &b with a row vector b broadcast over the rows of m
AddRow(m, b) == [i \in 1 .. Rows(m) |-> [j \in 1 .. Cols(m) |-> m[i][j] + b[j]]]
\* m.sum_axis(Axis(0))
SumAxis0(m) == [j \in 1 .. Cols(m) |-> SumTo([i \in 1 .. Rows(m) |-> m[i][j]], Rows(m))]
\* v.insert_axis(Axis(1)) and m.remove_axis(Axis(1))
InsertAxis1(v) == [i \in 1 .. Len(v) |-> <<v[i]>>]
RemoveAxis1(m) == [i \in 1 .. Len(m) |-> m[i][1]]
\* x.into_shape(x.len()) of a one-row matrix
Flatten(m) == IF Rows(m) = 0 THEN <<>> ELSE m[1]

IndexMatrices(r, c) == [1 .. r -> [1 .. c -> Slots]]
IndexVectors(n) == [1 .. n -> Slots]
InRange1(v) == \A j \in 1 .. Len(v) : v[j] \in Slots
InRange2(m) == \A i \in 1 .. Rows(m) : InRange1(m[i])

(***************************************************************************)
(* The collaborators at the engine's boundary (crate::substrate,           *)
(* crate::activation, crate::loss), from their contract.                   *)
(***************************************************************************)
\* Substrate::get
get(p, ix) == p[ix + 1]

\* the sum of the contributions of one highspeed call aimed at slot s
Contribution(grad, index, s) ==
    SumTo([i \in 1 .. Rows(grad) |->
             SumTo([j \in 1 .. Cols(grad) |-> IF index[i][j] = s THEN grad[i][j] ELSE 0],
                   Cols(grad))],
          Rows(grad))

\* Substrate::highspeed(grad, index, learning_rate): every (grad[k], index[k])
\* adds grad[k] * learning_rate to slot index[k], contributions to one slot
\* combined; the substrate's own policy pol may move every index to another
\* slot and may rewrite the submitted gradients.  An index outside [0, size)
\* breaks the contract: the bounds-checked access aborts the program.
highspeed(p, pol, grad, index, rate) ==
    IF ~InRange2(index) THEN [ok |-> FALSE, pool |-> p, grad |-> grad, index |-> index]
    ELSE [ok    |-> TRUE,
          pool  |-> [s \in 1 .. Len(p) |->
                        p[s] + (Contribution(grad, index, s - 1) * rate[1]) \div rate[2]],
          grad  |-> IF pol.clear THEN Zeros2(Rows(grad), Cols(grad)) ELSE grad,
          index |-> IF pol.reassign THEN [i \in 1 .. Rows(index) |-> [j \in 1 .. Cols(index) |->
                                        (index[i][j] + 1) % PoolSize]]
                    ELSE index]

\* Activation::a and Activation::d of Relu and Identity
Act_a(act, z) ==
    [i \in 1 .. Rows(z) |-> [j \in 1 .. Cols(z) |->
        IF act = "relu" /\ z[i][j] <= 0 THEN 0 ELSE z[i][j]]]
Act_d(act, z) ==
    [i \in 1 .. Rows(z) |-> [j \in 1 .. Cols(z) |->
        IF act = "relu" /\ z[i][j] <= 0 THEN 0 ELSE 1]]

\* MSE::a: the mean of the squared errors, and MSE::d: its gradient 2 (p - y) / n
Loss_a(y_pred, y) ==
    RNorm(SumTo([j \in 1 .. Len(y) |-> (y_pred[j] - y[j]) * (y_pred[j] - y[j])], Len(y)),
          Len(y))
Loss_d(y_pred, y) == [j \in 1 .. Len(y) |-> (2 * (y_pred[j] - y[j])) \div Len(y)]

(***************************************************************************)
(* Layer                                                                   *)
(***************************************************************************)
\* Layer::new, with the two uniform draws wi and bi passed in
Layer_new(x_shape, w_shape, b_shape, activation, wi, bi) ==
    [x          |-> Zeros2(x_shape[1], x_shape[2]),
     wi         |-> wi,
     bi         |-> bi,
     w          |-> Zeros2(w_shape[1], w_shape[2]),
     b          |-> Zeros1(b_shape),
     d_z        |-> Zeros2(w_shape[1], w_shape[2]),
     grad_w     |-> Zeros2(w_shape[1], w_shape[2]),
     grad_b     |-> Zeros1(b_shape),
     activation |-> activation]

\* a slip: the looked-up values are added to the dense ones
Layer_gather_Accumulate(layer, p) ==
    [layer EXCEPT !.w = [i \in 1 .. Rows(layer.wi) |-> [j \in 1 .. Cols(layer.wi) |->
                            layer.w[i][j] + get(p, layer.wi[i][j])]]]

\* Layer::gather
Layer_gather(layer, p) ==
    [layer EXCEPT !.w = [i \in 1 .. Rows(layer.wi) |-> [j \in 1 .. Cols(layer.wi) |->
                            get(p, layer.wi[i][j])]]]

\* Layer::shift_bias
shift_bias(layer, shift) == [layer EXCEPT !.bi = Add1(layer.bi, shift)]

\* Layer::assign_grad_w, Layer::assign_grad_b
assign_grad_w(layer, grad) == [layer EXCEPT !.grad_w = grad]
assign_grad_b(layer, grad) == [layer EXCEPT !.grad_b = grad]

\* a slip: the input is not cached
Layer_forward_NoCache(layer, x) ==
    IF Cols(x) # Rows(layer.w) THEN [ok |-> FALSE, layer |-> layer, out |-> x]
    ELSE LET z == AddRow(Dot(x, layer.w), layer.b)
         IN  [ok    |-> TRUE,
              layer |-> [layer EXCEPT !.d_z = Act_d(layer.activation, z)],
              out   |-> Act_a(layer.activation, z)]

\* a slip: the pre-activation is kept as the layer's bias
Layer_forward_Drift(layer, x) ==
    IF Cols(x) # Rows(layer.w) THEN [ok |-> FALSE, layer |-> layer, out |-> x]
    ELSE LET z == AddRow(Dot(x, layer.w), layer.b)
         IN  [ok    |-> TRUE,
              layer |-> [layer EXCEPT !.x = x, !.d_z = Act_d(layer.activation, z),
                                      !.b = z[1]],
              out   |-> Act_a(layer.activation, z)]

\* Layer::forward; ok is FALSE when x.dot(&self.w) panics on the shapes
Layer_forward(layer, x) ==
    IF Cols(x) # Rows(layer.w) THEN [ok |-> FALSE, layer |-> layer, out |-> x]
    ELSE LET z == AddRow(Dot(x, layer.w), layer.b)
         IN  [ok    |-> TRUE,
              layer |-> [layer EXCEPT !.x = x, !.d_z = Act_d(layer.activation, z)],
              out   |-> Act_a(layer.activation, z)]

\* a slip: the buffer is overwritten with the negated local gradient
Accumulate2_Overwrite(buffer, local) == Sub2(Zeros2(Rows(buffer), Cols(buffer)), local)

\* the accumulation of Layer::backward: self.grad -= &local
Accumulate2(buffer, local) == Sub2(buffer, local)
Accumulate1(buffer, local) == Sub1(buffer, local)

\* Layer::backward; ok is FALSE when the cached d_z or x do not have the
\* shapes of a forward pass on this gradient (the array operations panic)
Layer_backward(layer, grad_output) ==
    IF Shape(grad_output) # Shape(layer.d_z) \/ Rows(layer.x) # Rows(grad_output)
       \/ Cols(grad_output) # Cols(layer.w)
    THEN [ok |-> FALSE, layer |-> layer, grad_input |-> grad_output,
          local_w |-> <<>>, local_b |-> <<>>]
    ELSE LET grad_z == Mul2(grad_output, layer.d_z)
             grad_w == Dot(Transpose(layer.x), grad_z)
             grad_b == SumAxis0(grad_z)
         IN  [ok         |-> TRUE,
              layer      |-> [layer EXCEPT !.grad_w = Accumulate2(layer.grad_w, grad_w),
                                           !.grad_b = Accumulate1(layer.grad_b, grad_b)],
              grad_input |-> Dot(grad_z, Transpose(layer.w)),
              local_w    |-> grad_w,
              local_b    |-> grad_b]

(***************************************************************************)
(* The state: the Substrate, the Manifold, and the position of the one     *)
(* (single-threaded) caller inside backwards and train.                    *)
(***************************************************************************)
VARIABLES
    pool,                \* Substrate: the scalar behind each slot
    policy,              \* Substrate: what its highspeed does to indices and gradients
    d_in, d_out, layers, \* Manifold
    web,
    gradient_retention,
    learning_rate,
    decay,
    early_terminate,
    epochs,
    sample_size,
    losses,
    pc,                  \* "idle", "backwards", "epoch", "sample" or "panicked"
    last,                \* the Manifold operation that returned last
    out,                 \* the prediction Manifold::forward returned last
    bw,                  \* the frame of Manifold::backwards
    tr,                  \* the frame of Manifold::train
    weaves, steps,       \* calls of weave and of backwards made so far
    acc,                 \* history: per layer, the gradients computed and submitted
    run                  \* history: the epochs of the current (or last) train call

vars == <<pool, policy, d_in, d_out, layers, web, gradient_retention, learning_rate,
          decay, early_terminate, epochs, sample_size, losses, pc, last, out,
          bw, tr, weaves, steps, acc, run>>

substrate == <<pool, policy>>
schema == <<d_in, d_out, layers>>
config == <<gradient_retention, learning_rate, decay, early_terminate, epochs, sample_size>>
counters == <<weaves, steps>>

NoFrame == [i |-> 0, grad |-> <<>>, caller |-> "api"]
NoTrain == [xy |-> <<>>, epoch |-> 0, sample |-> <<>>, done |-> <<>>, total_loss |-> <<>>]
NoRun == [budget |-> 0, executed |-> 0, fired |-> FALSE, base |-> <<>>, rate0 |-> NaN]

\* the substrates explored: one that neither moves an index nor rewrites a
\* gradient, one that moves every index, one that clears the gradients
Stub == [reassign |-> FALSE, clear |-> FALSE]
Policies == { Stub, [reassign |-> TRUE, clear |-> FALSE], [reassign |-> FALSE, clear |-> TRUE] }

\* the pools explored: get(i) = i, and every slot holding 1
InitialPools == { [s \in 1 .. PoolSize |-> s - 1], [s \in 1 .. PoolSize |-> 1] }

\* Manifold::new and Manifold::dynamic (which draws the schedule itself)
Constructed ==
    /\ pool \in InitialPools
    /\ policy \in Policies
    /\ \E t \in Topologies : d_in = t[1] /\ d_out = t[2] /\ layers = t[3]
    /\ web = <<>>
    /\ gradient_retention = "Roll"
    /\ learning_rate = DefaultLearningRate
    /\ decay = DefaultDecay
    /\ epochs = DefaultEpochs
    /\ sample_size \in {DefaultSampleSize, DynamicSampleSize}
    /\ pc = "idle"
    /\ last = "new"
    /\ out = <<>>
    /\ bw = NoFrame
    /\ tr = NoTrain
    /\ weaves = 0
    /\ steps = 0
    /\ acc = <<>>
    /\ run = NoRun

Init ==
    /\ Constructed
    /\ early_terminate = [kind |-> "never"]
    /\ losses = <<>>

(***************************************************************************)
(* Manifold: the builder's setters                                         *)
(***************************************************************************)
Retentions == {"Roll", "Zero"}
LearningRates == {RInt(1)}
Decays == {RInt(1), RInt(2)}
MinDeltas == {RInt(0), RInt(1)}
MaxPatience == 1
SampleSizes == 0 .. 2

\* explored: any policy before the first update, and the switch to Zero later
set_gradient_retention(method) ==
    /\ pc = "idle"
    /\ (steps = 0 \/ method = "Zero")
    /\ gradient_retention' = method
    /\ last' = "configure"
    /\ UNCHANGED <<substrate, schema, web, learning_rate, decay, early_terminate, epochs,
                   sample_size, losses, pc, out, bw, tr, counters, acc, run>>

set_learning_rate(rate) ==
    /\ pc = "idle"
    /\ learning_rate' = rate
    /\ last' = "configure"
    /\ UNCHANGED <<substrate, schema, web, gradient_retention, decay, early_terminate,
                   epochs, sample_size, losses, pc, out, bw, tr, counters, acc, run>>

set_decay(d) ==
    /\ pc = "idle"
    /\ decay' = d
    /\ last' = "configure"
    /\ UNCHANGED <<substrate, schema, web, gradient_retention, learning_rate,
                   early_terminate, epochs, sample_size, losses, pc, out, bw, tr,
                   counters, acc, run>>

set_epochs(e) ==
    /\ pc = "idle"
    /\ epochs' = e
    /\ last' = "configure"
    /\ UNCHANGED <<substrate, schema, web, gradient_retention, learning_rate, decay,
                   early_terminate, sample_size, losses, pc, out, bw, tr, counters,
                   acc, run>>

set_sample_size(n) ==
    /\ pc = "idle"
    /\ sample_size' = n
    /\ last' = "configure"
    /\ UNCHANGED <<substrate, schema, web, gradient_retention, learning_rate, decay,
                   early_terminate, epochs, losses, pc, out, bw, tr, counters, acc, run>>

\* a slip: the deltas are taken as current - previous
UntilPredicate_Flipped(patience, min_delta, history) ==
    LET len == Len(history) IN
    IF patience + 2 > len THEN FALSE
    ELSE LET deltas == [k \in 1 .. patience |->
                           LET i == len - k IN RSub(history[i + 1], history[i])]
             avg_delta == RDivCount(RSum(deltas), Len(deltas))
         IN  RLess(avg_delta, min_delta)

\* the closure installed by Manifold::until, applied to a loss history
UntilPredicate(patience, min_delta, history) ==
    LET len == Len(history) IN
    IF patience + 2 > len THEN FALSE
    ELSE LET deltas == [k \in 1 .. patience |->
                           \* i runs from len - 1 down to len - patience (0-based)
                           LET i == len - k IN RSub(history[i], history[i + 1])]
             avg_delta == RDivCount(RSum(deltas), Len(deltas))
         IN  RLess(avg_delta, min_delta)

\* a slip: the constructors' closure answers true
EarlyTerminate_DefaultStops(et, history) ==
    CASE et.kind = "never" -> TRUE
      [] et.kind = "until" -> UntilPredicate(et.patience, et.min_delta, history)
      [] et.kind = "some"  -> Len(history) >= et.n

\* (self.early_terminate)(&self.losses); a caller's own closure (until_some)
\* is drawn from the family "the history has at least n entries"
EarlyTerminate(et, history) ==
    CASE et.kind = "never" -> FALSE
      [] et.kind = "until" -> UntilPredicate(et.patience, et.min_delta, history)
      [] et.kind = "some"  -> Len(history) >= et.n

until(patience, min_delta) ==
    /\ pc = "idle"
    /\ early_terminate' = [kind |-> "until", patience |-> patience, min_delta |-> min_delta]
    /\ last' = "configure"
    /\ UNCHANGED <<substrate, schema, web, gradient_retention, learning_rate, decay,
                   epochs, sample_size, losses, pc, out, bw, tr, counters, acc, run>>

until_some(n) ==
    /\ pc = "idle"
    /\ early_terminate' = [kind |-> "some", n |-> n]
    /\ last' = "configure"
    /\ UNCHANGED <<substrate, schema, web, gradient_retention, learning_rate, decay,
                   epochs, sample_size, losses, pc, out, bw, tr, counters, acc, run>>

(***************************************************************************)
(* Manifold: weave, gather, forward                                        *)
(***************************************************************************)
\* the shapes weave() walks through: one <<input width, output width,
\* activation>> per hidden width, fed by p_dim, then the output layer
RECURSIVE WeaveShapes(_, _, _)
WeaveShapes(p_dim, schedule, width) ==
    IF schedule = <<>> THEN << <<p_dim, width, "identity">> >>
    ELSE << <<p_dim, Head(schedule), "relu">> >>
         \o WeaveShapes(Head(schedule), Tail(schedule), width)

\* the layers Layer::new can return for one shape, over its uniform draws
NewLayers(sh) ==
    { Layer_new(<<1, sh[1]>>, <<sh[1], sh[2]>>, sh[2], sh[3], wi, bi) :
        wi \in IndexMatrices(sh[1], sh[2]), bi \in IndexVectors(sh[2]) }

RECURSIVE NewChains(_)
NewChains(shapes) ==
    IF shapes = <<>> THEN { <<>> }
    ELSE { <<l>> \o rest : l \in NewLayers(Head(shapes)), rest \in NewChains(Tail(shapes)) }

\* what weave() does to self.web: it pushes the new layers
Woven(old, chain) == old \o chain

\* history of one layer: w, b the negated sum of the gradients Layer::backward
\* computed; local_w, local_b the last of them; sub_w, sub_b the buffers last
\* submitted to the substrate; rolled, whether every pass so far ran under Roll
NoAcc(layer) == [w |-> layer.grad_w, b |-> layer.grad_b,
                 local_w |-> layer.grad_w, local_b |-> layer.grad_b,
                 sub_w |-> layer.grad_w, sub_b |-> layer.grad_b, rolled |-> TRUE]

weave ==
    /\ pc = "idle"
    /\ weaves < MaxWeaves
    /\ \E chain \in NewChains(WeaveShapes(d_in, layers, d_out)) :
          /\ web' = Woven(web, chain)
          /\ acc' = acc \o [k \in 1 .. Len(chain) |-> NoAcc(chain[k])]
    /\ weaves' = weaves + 1
    /\ last' = "weave"
    /\ UNCHANGED <<substrate, schema, config, losses, pc, out, bw, tr, steps, run>>

\* Manifold::gather
Manifold_gather(w, p) == [k \in 1 .. Len(w) |-> Layer_gather(w[k], p)]

gather ==
    /\ pc = "idle"
    /\ web' = Manifold_gather(web, pool)
    /\ last' = "gather"
    /\ UNCHANGED <<substrate, schema, config, losses, pc, out, bw, tr, counters, acc, run>>

\* Manifold::prepare
prepare(xv) == << xv >>

\* the loop of Manifold::forward from layer k on
RECURSIVE ForwardFrom(_, _, _)
ForwardFrom(w, k, x) ==
    IF k > Len(w) THEN [ok |-> TRUE, web |-> w, out |-> x]
    ELSE LET r == Layer_forward(w[k], x) IN
         IF ~r.ok THEN [ok |-> FALSE, web |-> w, out |-> x]
         ELSE ForwardFrom([w EXCEPT ![k] = r.layer], k + 1, r.out)

\* Manifold::forward
Manifold_forward(w, xv) ==
    LET r == ForwardFrom(w, 1, prepare(xv))
    IN  [ok |-> r.ok, web |-> r.web, out |-> Flatten(r.out)]

\* the input vectors explored: k ones followed by zeros
Inputs(n) == { [j \in 1 .. n |-> IF j <= k THEN 1 ELSE 0] : k \in 0 .. n }
\* the target and prediction vectors explored
Targets(n) == [1 .. n -> TargetValues]

forward(xv) ==
    /\ pc = "idle"
    /\ LET r == Manifold_forward(web, xv) IN
         IF r.ok
         THEN /\ web' = r.web
              /\ out' = r.out
              /\ last' = "forward"
              /\ pc' = pc
         ELSE /\ pc' = "panicked"
              /\ UNCHANGED <<web, out, last>>
    /\ UNCHANGED <<substrate, schema, config, losses, bw, tr, counters, acc, run>>

(***************************************************************************)
(* Manifold::backwards                                                     *)
(***************************************************************************)
\* a slip: under Zero only grad_b is reset
Retain_OnlyBias(layer, retention) ==
    IF retention = "Zero" THEN assign_grad_b(layer, Zeros1(Len(layer.grad_b))) ELSE layer

\* the retention match that ends the loop body
Retain(layer, retention) ==
    IF retention = "Zero"
    THEN assign_grad_w(assign_grad_b(layer, Zeros1(Len(layer.grad_b))),
                       Zeros2(Rows(layer.grad_w), Cols(layer.grad_w)))
    ELSE layer

\* what the loop body makes of the bias indices the substrate hands back
ShiftedBias(layer, b_link_reshaped) == shift_bias(layer, RemoveAxis1(b_link_reshaped))

\* one pass of the loop body over `layer`, receiving grad_output
BackwardsBody(layer, grad_output, p, pol, rate, retention) ==
    LET r  == Layer_backward(layer, grad_output)
        l1 == r.layer
        b_grad_reshaped == InsertAxis1(l1.grad_b)
        b_link_reshaped == InsertAxis1(l1.bi)
        hw == highspeed(p, pol, l1.grad_w, l1.wi, rate)
        l2 == [l1 EXCEPT !.grad_w = hw.grad, !.wi = hw.index]
        hb == highspeed(hw.pool, pol, b_grad_reshaped, b_link_reshaped, rate)
        l3 == Layer_gather(assign_grad_b(ShiftedBias(l2, hb.index), RemoveAxis1(hb.grad)),
                           hb.pool)
    IN  IF ~r.ok THEN [ok |-> FALSE]
        ELSE IF ~hw.ok \/ ~hb.ok THEN [ok |-> FALSE]
        ELSE [ok         |-> TRUE,
              layer      |-> Retain(l3, retention),
              pool       |-> hb.pool,
              grad_input |-> r.grad_input,
              local_w    |-> r.local_w,
              local_b    |-> r.local_b,
              sub_w      |-> l1.grad_w,
              sub_b      |-> l1.grad_b,
              back_bi    |-> RemoveAxis1(hb.index)]

\* a slip: the loop walks the web from its first layer
BackwardsFrame_FromFirst(y_pred, y, caller) ==
    [i |-> 1, grad |-> << Loss_d(y_pred, y) >>, caller |-> caller]

\* the call: the loss gradient, reshaped to one row, enters the last layer
BackwardsFrame(y_pred, y, caller) ==
    [i |-> Len(web), grad |-> << Loss_d(y_pred, y) >>, caller |-> caller]

\* explored on a woven Manifold, for the prediction forward has just returned
\* (as train calls it), and at an integral learning rate
backwards(y_pred, y) ==
    /\ pc = "idle"
    /\ web # <<>>
    /\ last = "forward" /\ y_pred = out
    /\ steps < MaxSteps
    /\ RIsInt(learning_rate)
    /\ steps' = steps + 1
    /\ pc' = "backwards"
    /\ bw' = BackwardsFrame(y_pred, y, "api")
    /\ UNCHANGED <<substrate, schema, web, config, losses, last, out, tr, weaves, acc, run>>

backwards_layer ==
    /\ pc = "backwards"
    /\ LET r == BackwardsBody(web[bw.i], bw.grad, pool, policy, learning_rate,
                              gradient_retention) IN
         IF r.ok
         THEN /\ web' = [web EXCEPT ![bw.i] = r.layer]
              /\ pool' = r.pool
              /\ acc' = [acc EXCEPT ![bw.i] =
                            [w       |-> Sub2(@.w, r.local_w),
                             b       |-> Sub1(@.b, r.local_b),
                             local_w |-> r.local_w,
                             local_b |-> r.local_b,
                             sub_w   |-> r.sub_w,
                             sub_b   |-> r.sub_b,
                             rolled  |-> @.rolled /\ gradient_retention = "Roll"]]
              /\ IF bw.i > 1
                 THEN /\ bw' = [bw EXCEPT !.i = bw.i - 1, !.grad = r.grad_input]
                      /\ UNCHANGED <<pc, last>>
                 ELSE /\ bw' = NoFrame
                      /\ pc' = IF bw.caller = "train" THEN "sample" ELSE "idle"
                      /\ last' = "backwards"
         ELSE /\ pc' = "panicked"
              /\ bw' = NoFrame
              /\ UNCHANGED <<pool, web, acc, last>>
    /\ UNCHANGED <<policy, schema, config, losses, out, tr, counters, run>>

(***************************************************************************)
(* Manifold::train                                                         *)
(***************************************************************************)
Min(a, b) == IF a < b THEN a ELSE b

\* x.into_iter().zip(y.into_iter()).collect()
Zip(x, y) == [k \in 1 .. Min(Len(x), Len(y)) |-> <<x[k], y[k]>>]

\* a slip: the positions are drawn with replacement
Samples_WithReplacement(n, amount) == [1 .. Min(amount, n) -> 1 .. n]

\* xy.choose_multiple(&mut rng, amount): min(amount, n) distinct positions, in any order
Samples(n, amount) ==
    { s \in [1 .. Min(amount, n) -> 1 .. n] : \A a, b \in DOMAIN s : a # b => s[a] # s[b] }

\* the training sets train is called with
TrainingSets ==
    LET x1 == [j \in 1 .. d_in |-> 1]   y1 == [j \in 1 .. d_out |-> 0]
        x2 == [j \in 1 .. d_in |-> 0]   y2 == [j \in 1 .. d_out |-> 1]
    IN  { << <<>>, <<>> >>, << <<x1>>, <<y1>> >>, << <<x1, x2>>, <<y1, y2>> >>,
          << <<x1, x2>>, <<y1>> >> }

\* total_loss.into_iter().fold(0., |a, v| a + v) / ct
AverageLoss(total_loss) == RDivCount(RSum(total_loss), Len(total_loss))

\* a slip: the rate is decayed only when the loop goes on
Decayed_Skipped(rate, factor) == rate

\* self.learning_rate *= self.decay
Decayed(rate, factor) == RMul(rate, factor)

\* a slip: the new average replaces the history
Recorded_Overwrite(history, avg_loss) == << avg_loss >>

\* the history the predicate is evaluated on at the end of an epoch
Recorded(history, avg_loss) == Append(history, avg_loss)

\* a slip: the predicate's answer is ignored
Continues_NoBreak(stop, epoch, budget) == epoch + 1 < budget

\* whether the loop runs another epoch after epoch number `epoch`
Continues(stop, epoch, budget) == ~stop /\ epoch + 1 < budget

\* a slip: a call starts from an empty history
Inherited_Cleared(history) == <<>>

\* the history a train call starts from: self.losses as the last call left it
Inherited(history) == history

train(x, y) ==
    /\ pc = "idle"
    /\ web # <<>>
    /\ RIsInt(learning_rate) /\ RIsInt(decay)
    /\ Len(losses) + epochs <= MaxHistory
    /\ steps + epochs * Min(sample_size, Min(Len(x), Len(y))) <= MaxSteps
    /\ tr' = [xy |-> Zip(x, y), epoch |-> 0, sample |-> <<>>, done |-> <<>>,
              total_loss |-> <<>>]
    /\ run' = [budget |-> epochs, executed |-> 0, fired |-> FALSE, base |-> losses,
               rate0 |-> learning_rate]
    /\ IF 0 < epochs
       THEN pc' = "epoch" /\ last' = last
       ELSE pc' = "idle" /\ last' = "train"
    /\ losses' = Inherited(losses)
    /\ UNCHANGED <<substrate, schema, web, config, out, bw, counters, acc>>

\* the head of the epoch loop: draw the sample
train_sample ==
    /\ pc = "epoch"
    /\ \E s \in Samples(Len(tr.xy), sample_size) :
          tr' = [tr EXCEPT !.sample = s, !.done = <<>>, !.total_loss = <<>>]
    /\ pc' = "sample"
    /\ UNCHANGED <<substrate, schema, web, config, losses, last, out, bw, counters, acc, run>>

\* one sampled pair: forward, the loss, and the call of backwards
train_pair ==
    /\ pc = "sample"
    /\ tr.sample # <<>>
    /\ LET xy == tr.xy[Head(tr.sample)]
           r  == Manifold_forward(web, xy[1])
       IN  IF r.ok
           THEN /\ web' = r.web
                /\ out' = r.out
                /\ tr' = [tr EXCEPT !.sample = Tail(@),
                                    !.done = Append(@, Head(tr.sample)),
                                    !.total_loss = Append(@, Loss_a(r.out, xy[2]))]
                /\ bw' = [i |-> Len(web), grad |-> << Loss_d(r.out, xy[2]) >>,
                          caller |-> "train"]
                /\ pc' = "backwards"
                /\ last' = "forward"
                /\ steps' = steps + 1
           ELSE /\ pc' = "panicked"
                /\ UNCHANGED <<web, out, tr, bw, last, steps>>
    /\ UNCHANGED <<substrate, schema, config, losses, weaves, acc, run>>

\* the end of an epoch: decay, record the average loss, ask the predicate
train_epoch_end ==
    /\ pc = "sample"
    /\ tr.sample = <<>>
    /\ learning_rate' = Decayed(learning_rate, decay)
    /\ LET history == Recorded(losses, AverageLoss(tr.total_loss))
           stop    == EarlyTerminate(early_terminate, history)
       IN  /\ losses' = history
           /\ run' = [run EXCEPT !.executed = @ + 1, !.fired = stop]
           /\ IF Continues(stop, tr.epoch, epochs)
              THEN /\ pc' = "epoch"
                   /\ tr' = [tr EXCEPT !.epoch = @ + 1]
                   /\ last' = last
              ELSE /\ pc' = "idle"
                   /\ tr' = tr
                   /\ last' = "train"
    /\ UNCHANGED <<substrate, schema, web, gradient_retention, decay, early_terminate,
                   epochs, sample_size, out, bw, counters, acc>>

\* (self.early_terminate)(&self.losses), on its own
early_terminate_call ==
    /\ pc = "idle"
    /\ run' = [run EXCEPT !.fired = EarlyTerminate(early_terminate, losses)]
    /\ last' = "early_terminate"
    /\ UNCHANGED <<substrate, schema, web, config, losses, pc, out, bw, tr, counters, acc>>

(***************************************************************************)
(* The specifications.  Next is every operation of the Manifold.  Engine   *)
(* explores a Manifold woven once under forward and backwards; Rewoven     *)
(* explores repeated weave; Training explores train on one topology.       *)
(***************************************************************************)
Configure ==
    \/ \E d \in Decays : set_decay(d)
    \/ \E e \in 0 .. MaxEpochs : set_epochs(e)
    \/ \E n \in SampleSizes : set_sample_size(n)
    \/ \E p \in 0 .. MaxPatience, md \in MinDeltas : until(p, md)
    \/ \E n \in 1 .. MaxEpochs : until_some(n)

Engine ==
    \/ \E m \in Retentions : set_gradient_retention(m)
    \/ \E r \in LearningRates : set_learning_rate(r)
    \/ gather
    \/ \E xv \in Inputs(d_in) : forward(xv)
    \/ \E y \in Targets(d_out) : backwards(out, y)
    \/ backwards_layer

Train ==
    \/ \E d \in TrainingSets : train(d[1], d[2])
    \/ train_sample
    \/ train_pair
    \/ train_epoch_end

Next == Configure \/ Engine \/ weave \/ Train

\* a Manifold woven once, under forward and backwards
InitNew == Init /\ sample_size = DefaultSampleSize
NextEngine == Engine \/ (weave /\ web = <<>>)
Spec == InitNew /\ [][NextEngine]_vars

\* the same, over the substrate that neither moves an index nor rewrites a
\* gradient
InitInference == InitNew /\ policy = Stub
Inference == InitInference /\ [][NextEngine]_vars

\* weave called again on a woven Manifold
NextRewoven ==
    \/ weave
    \/ gather
    \/ \E xv \in Inputs(d_in) : forward(xv)
Rewoven == InitNew /\ [][NextRewoven]_vars

\* train, on a Manifold configured before it is woven
InitTraining == Init /\ policy = Stub /\ layers = <<>> /\ pool = [s \in 1 .. PoolSize |-> 1]
NextTraining ==
    \/ (Configure /\ web = <<>>)
    \/ (\E r \in LearningRates : set_learning_rate(r) /\ web = <<>>)
    \/ (weave /\ web = <<>>)
    \/ gather
    \/ Train
    \/ backwards_layer
Training == InitTraining /\ [][NextTraining]_vars

\* train on a Manifold with a hidden layer, under the default configuration
\* but for the rate and the epoch budget
InitPairing == Init /\ policy = Stub /\ layers # <<>>
NextPairing ==
    \/ (\E e \in 0 .. MaxEpochs : set_epochs(e) /\ web = <<>>)
    \/ (\E r \in LearningRates : set_learning_rate(r) /\ web = <<>>)
    \/ (weave /\ web = <<>>)
    \/ gather
    \/ Train
    \/ backwards_layer
Pairing == InitPairing /\ [][NextPairing]_vars

\* the predicate of until(patience, min_delta) on the histories over LossValues
LossValues == {RInt(0), RInt(1), RInt(2), <<1, 2>>}
MaxLen == 4
Histories == UNION { [1 .. n -> LossValues] : n \in 0 .. MaxLen }
InitUntil ==
    /\ Constructed
    /\ policy = Stub /\ layers = <<>> /\ pool = [s \in 1 .. PoolSize |-> 1]
    /\ sample_size = DefaultSampleSize
    /\ losses \in Histories
    /\ \E p \in 0 .. MaxPatience + 1, md \in MinDeltas :
          early_terminate = [kind |-> "until", patience |-> p, min_delta |-> md]
Until == InitUntil /\ [][early_terminate_call]_vars

(***************************************************************************)
(* The properties                                                          *)
(***************************************************************************)
Materialized_w(layer) ==
    /\ InRange2(layer.wi)
    /\ layer.w = [i \in 1 .. Rows(layer.wi) |-> [j \in 1 .. Cols(layer.wi) |->
                      get(pool, layer.wi[i][j])]]
Materialized_b(layer) ==
    InRange1(layer.bi) /\ layer.b = [j \in 1 .. Len(layer.bi) |-> get(pool, layer.bi[j])]
IsZero2(m) == m = Zeros2(Rows(m), Cols(m))
IsZero1(v) == v = Zeros1(Len(v))
InWidth(layer) == Rows(layer.wi)
OutWidth(layer) == Cols(layer.wi)
Returned == pc \in {"idle", "sample"}
InTrain == pc \in {"epoch", "sample"} \/ (pc = "backwards" /\ bw.caller = "train")

\* C1: right after gather, every layer's w and b are the pool's values at wi
\* and bi: w[i,j] = get(wi[i,j]) and b[j] = get(bi[j]).
C1_GatherMaterializes ==
    last = "gather" =>
        \A k \in 1 .. Len(web) : Materialized_w(web[k]) /\ Materialized_b(web[k])

\* C2: when backwards returns, w[i,j] = get(wi[i,j]) holds for every layer of
\* the web, also when layers share pool slots.
C2_BackwardsLeavesWebGathered ==
    (last = "backwards" /\ Returned) => \A k \in 1 .. Len(web) : Materialized_w(web[k])

\* C3: once woven, every entry of every wi and bi lies in [0, substrate.size),
\* given a substrate that hands back in-range index arrays.
C3_IndicesInRange ==
    \A k \in 1 .. Len(web) : InRange2(web[k].wi) /\ InRange1(web[k].bi)

\* C4: a layer's update inside backwards leaves bi = previous bi + (the index
\* array the substrate handed back - the copy submitted), and wi the array the
\* substrate handed back; so a substrate that reassigns nothing leaves both.
C4_BiasFollowsReassignment ==
    [][ (pc = "backwards" /\ pc' # "panicked") =>
          LET old == web[bw.i]
              new == web'[bw.i]
              r   == BackwardsBody(old, bw.grad, pool, policy, learning_rate,
                                   gradient_retention)
          IN  /\ new.bi = Add1(old.bi, Sub1(r.back_bi, old.bi))
              /\ (~policy.reassign => (new.bi = old.bi /\ new.wi = old.wi)) ]_vars

\* C5: whenever backwards returns under gradient_retention = Zero, grad_w and
\* grad_b of every layer are all-zero.
C5_ZeroRetentionClears ==
    (last = "backwards" /\ Returned /\ gradient_retention = "Zero") =>
        \A k \in 1 .. Len(web) : IsZero2(web[k].grad_w) /\ IsZero1(web[k].grad_b)

\* a return under Zero of a pass that submitted a non-zero gradient to the
\* substrate, on a layer whose buffer held a total rolled over from before
C5_Witness ==
    /\ last = "backwards" /\ pc = "idle" /\ gradient_retention = "Zero"
    /\ \E k \in 1 .. Len(web) :
          /\ ~IsZero2(acc[k].sub_w)
          /\ acc[k].sub_w # Sub2(Zeros2(Rows(acc[k].sub_w), Cols(acc[k].sub_w)), acc[k].local_w)
          /\ IsZero2(web[k].grad_w)

\* C6: under Roll, with a substrate that changes neither the gradients nor the
\* indices it is handed, each layer's grad_w and grad_b are, after any number
\* of passes, the negated sum of the gradients computed so far, and what the
\* last pass submitted to the substrate is that whole total.
C6_RollAccumulates ==
    policy = Stub =>
        \A k \in 1 .. Len(web) :
            acc[k].rolled =>
                /\ web[k].grad_w = acc[k].w /\ web[k].grad_b = acc[k].b
                /\ acc[k].sub_w = acc[k].w /\ acc[k].sub_b = acc[k].b

\* after two passes under Roll a buffer holds more than the last gradient
C6_Witness ==
    /\ policy = Stub /\ steps = 2 /\ last = "backwards" /\ pc = "idle"
    /\ \E k \in 1 .. Len(web) :
          /\ acc[k].rolled
          /\ ~IsZero2(acc[k].local_w)
          /\ web[k].grad_w # Sub2(Zeros2(Rows(acc[k].w), Cols(acc[k].w)), acc[k].local_w)

\* C7 as claimed: a train call never executes more than `epochs` epochs, and
\* once the predicate has returned true no further epoch runs and fewer than
\* `epochs` epochs were executed.
C7_StopsStrictlyEarly ==
    /\ run.executed <= run.budget
    /\ run.fired => (~InTrain /\ run.executed < run.budget)

\* C7 amended: a train call never executes more than `epochs` epochs, and once
\* the predicate has returned true at the end of an epoch no further epoch
\* runs: the call has returned, having executed exactly the epochs up to that
\* one (which is the whole budget when that epoch is the last one).
C7_EpochBudget ==
    /\ run.executed <= run.budget
    /\ run.fired => (~InTrain /\ run.executed = tr.epoch + 1)

\* the predicate stopped a call before its budget was used up
C7_Witness == run.fired /\ run.executed < run.budget /\ last = "train"

\* the reference for until(patience, min_delta) on a history h of numbers:
\* false below patience + 2 entries; else whether the mean of the last
\* `patience` improvements h[i-1] - h[i], which add up to
\* h[L - patience] - h[L], is below min_delta (no mean of an empty window is)
UntilReference(patience, min_delta, h) ==
    /\ Len(h) >= patience + 2
    /\ patience > 0
    /\ LET gain == RSub(h[Len(h) - patience], h[Len(h)])
       IN  gain[1] * min_delta[2] < min_delta[1] * gain[2] * patience

\* C8: the predicate of until(patience, min_delta) is false on a history
\* shorter than patience + 2, and otherwise true exactly when the mean of the
\* last `patience` improvements is strictly below min_delta.
C8_UntilMatchesReference ==
    (last = "early_terminate" /\ early_terminate.kind = "until") =>
        run.fired = UntilReference(early_terminate.patience, early_terminate.min_delta, losses)

\* the predicate fired over a window of two pairs
C8_Witness ==
    /\ last = "early_terminate" /\ early_terminate.kind = "until"
    /\ early_terminate.patience = 2 /\ run.fired

\* C9: once weave() has been called the web has exactly Len(layers) + 1
\* layers, chained from d_in through the schedule's widths to d_out.
C9_ChainShape ==
    web # <<>> =>
        /\ Len(web) = Len(layers) + 1
        /\ InWidth(web[1]) = d_in
        /\ \A i \in 2 .. Len(web) :
              /\ InWidth(web[i]) = OutWidth(web[i - 1])
              /\ i - 1 <= Len(layers) => OutWidth(web[i - 1]) = layers[i - 1]
        /\ OutWidth(web[Len(web)]) = d_out

\* C10: every executed epoch appends one value, that epoch's average sampled
\* loss, at the end of losses, before the predicate is asked; nothing else
\* changes losses, so the history is the one the call found followed by one
\* entry per executed epoch.
C10_LossesAppendOnly ==
    /\ [](/\ Len(losses) = Len(run.base) + run.executed
          /\ SubSeq(losses, 1, Len(run.base)) = run.base)
    /\ [][ losses' # losses =>
             /\ pc = "sample" /\ tr.sample = <<>>
             /\ losses' = Append(losses, AverageLoss(tr.total_loss))
             /\ run'.executed = run.executed + 1
             /\ run'.fired = EarlyTerminate(early_terminate, losses') ]_vars

\* a second train call has appended to the history the first one left
C10_Witness == Len(run.base) > 0 /\ run.executed > 0 /\ last = "train"

\* C11 as claimed: when the sample loop of an epoch ends, exactly sample_size
\* pairs were processed, at pairwise distinct positions of the paired set.
C11_ExactlySampleSize ==
    (pc = "sample" /\ tr.sample = <<>>) =>
        /\ Len(tr.done) = sample_size
        /\ \A a, b \in 1 .. Len(tr.done) : a # b => tr.done[a] # tr.done[b]

\* C11 amended: when the sample loop of an epoch ends, min(sample_size, size
\* of the paired set) pairs were processed, at pairwise distinct positions of
\* the paired set, each by one forward and one backwards.
C11_SampleWithoutReplacement ==
    (pc = "sample" /\ tr.sample = <<>>) =>
        /\ Len(tr.done) = Min(sample_size, Len(tr.xy))
        /\ Len(tr.total_loss) = Len(tr.done)
        /\ \A a \in 1 .. Len(tr.done) : tr.done[a] \in 1 .. Len(tr.xy)
        /\ \A a, b \in 1 .. Len(tr.done) : a # b => tr.done[a] # tr.done[b]

\* an epoch that processed both pairs of a two-pair set
C11_Witness ==
    /\ pc = "sample" /\ tr.sample = <<>>
    /\ Len(tr.xy) = 2 /\ Len(tr.done) = 2 /\ sample_size = 2

RECURSIVE RPow(_, _)
RPow(a, k) == IF k = 0 THEN RInt(1) ELSE RMul(RPow(a, k - 1), a)

\* C12: from the start of a train call on, the learning rate is the rate the
\* call found times decay^(epochs executed so far): it is multiplied once at
\* the end of each epoch, the one in which the predicate fires included, and
\* every update of an epoch runs at the rate of its first one.
C12_DecayOncePerEpoch ==
    ~RIsNaN(run.rate0) =>
        /\ learning_rate = RMul(run.rate0, RPow(decay, run.executed))
        /\ InTrain => run.executed = tr.epoch

\* the predicate fired at the end of an epoch that still decayed the rate
C12_Witness ==
    /\ last = "train" /\ run.fired /\ run.executed > 0
    /\ decay = RInt(2) /\ learning_rate = RMul(run.rate0, RPow(decay, run.executed))
    /\ learning_rate # run.rate0

\* C13: backwards enters at the last layer and moves one layer up per loop
\* body until layer 0 is done; a loop body touches its own layer only, runs
\* Layer.backward on the layer as the forward pass left it (then the updates
\* with the accumulated buffers, then the gather on the updated pool, then
\* the retention reset), and hands upstream grad_z . w^T for the w the layer
\* had before its own update.
C13_ReverseOrder ==
    [][ /\ (pc # "backwards" /\ pc' = "backwards") => bw'.i = Len(web)
        /\ (pc = "backwards" /\ pc' # "panicked") =>
              LET k      == bw.i
                  old    == web[k]
                  new    == web'[k]
                  grad_z == Mul2(bw.grad, old.d_z)
              IN  /\ \A j \in 1 .. Len(web) : j # k => web'[j] = web[j]
                  /\ Len(web') = Len(web)
                  /\ acc'[k].local_w = Dot(Transpose(old.x), grad_z)
                  /\ acc'[k].local_b = SumAxis0(grad_z)
                  /\ acc'[k].sub_w = Sub2(old.grad_w, acc'[k].local_w)
                  /\ acc'[k].sub_b = Sub1(old.grad_b, acc'[k].local_b)
                  /\ new.w = [i \in 1 .. Rows(new.wi) |-> [j \in 1 .. Cols(new.wi) |->
                                 get(pool', new.wi[i][j])]]
                  /\ gradient_retention = "Zero" =>
                        (IsZero2(new.grad_w) /\ IsZero1(new.grad_b))
                  /\ IF k > 1
                     THEN /\ pc' = "backwards"
                          /\ bw'.i = k - 1
                          /\ bw'.grad = Dot(grad_z, Transpose(old.w))
                     ELSE pc' # "backwards" ]_vars

\* a pass over two layers has returned, the upstream layer having received a
\* gradient that moved its weights' slot
C13_Witness ==
    /\ last = "backwards" /\ pc = "idle" /\ Len(web) = 2
    /\ ~IsZero2(acc[1].local_w) /\ ~IsZero2(acc[2].local_w)

\* C14 (its safety half): a train call on a woven and gathered Manifold ends
\* only by returning, and it returns only with the epoch budget used up or
\* with the predicate having fired on the history it had just extended.
C14_StopsByBudgetOrPredicate ==
    /\ pc # "panicked"
    /\ (last = "train" /\ pc = "idle") => (run.executed = run.budget \/ run.fired)

\* C15: a call of Manifold.forward changes nothing but each layer's cached x
\* and d_z (not w, b, wi, bi, grad_w, grad_b, the pool, the learning rate or
\* the loss history), and calling it again with the same input, nothing else
\* having run in between, returns the same output and changes nothing.
C15_ForwardDeterministic ==
    [][ (pc = "idle" /\ pc' = "idle" /\ last' = "forward") =>
          /\ Len(web') = Len(web)
          /\ \A k \in 1 .. Len(web) :
                web'[k] = [web[k] EXCEPT !.x = web'[k].x, !.d_z = web'[k].d_z]
          /\ UNCHANGED <<pool, learning_rate, losses>>
          /\ web # <<>> =>
                LET again == Manifold_forward(web', web'[1].x[1])
                IN  again.ok /\ again.out = out' /\ again.web = web' ]_vars

\* forward has returned a non-zero prediction on a web that backwards updated
C15_Witness ==
    /\ last = "forward" /\ pc = "idle" /\ steps > 0 /\ web # <<>>
    /\ out # Zeros1(Len(out))
    /\ \E k \in 1 .. Len(web) : ~IsZero2(web[k].grad_w)

\* C16: while train is inside the backwards of a sampled pair, every layer
\* not yet visited holds the x and d_z its forward cached for that very pair
\* (layer 0's x is the pair's input, layer k's is layer k-1's output), the
\* loss recorded for the pair is that of the prediction forward returned,
\* and the gradient entering the last layer is the loss gradient of that
\* prediction: forward, loss, backwards, with no forward in between.
C16_BackwardReadsItsForward ==
    (pc = "backwards" /\ bw.caller = "train") =>
        LET pair == tr.xy[tr.done[Len(tr.done)]]
            n    == Len(web)
        IN  /\ Len(tr.total_loss) = Len(tr.done)
            /\ tr.total_loss[Len(tr.total_loss)] = Loss_a(out, pair[2])
            /\ web[1].x = prepare(pair[1])
            /\ \A k \in 1 .. bw.i :
                  LET f == Layer_forward(web[k], web[k].x)
                  IN  /\ f.ok
                      /\ web[k].d_z = f.layer.d_z
                      /\ k < n => web[k + 1].x = f.out
                      /\ k = n => (out = Flatten(f.out) /\ bw.grad = << Loss_d(out, pair[2]) >>)

\* the backwards of a second pair of one epoch has reached the hidden layer,
\* whose caches differ from the ones the first pair left
C16_Witness ==
    /\ pc = "backwards" /\ bw.caller = "train" /\ bw.i = 1 /\ Len(web) = 2
    /\ Len(tr.done) = 2
    /\ web[1].x # prepare(tr.xy[tr.done[1]][1])

\* C17 (on a woven Manifold): forward on an input of length d_in returns, its
\* result has length d_out, layer 0 has cached the input as a 1 x d_in row,
\* every further layer has cached its predecessor's output, and the result
\* is the last layer's output.
C17_ForwardThreads ==
    web # <<>> =>
        /\ pc # "panicked"
        /\ (last = "forward" /\ pc = "idle") =>
              /\ Len(out) = d_out
              /\ Shape(web[1].x) = <<1, d_in>>
              /\ \A k \in 1 .. Len(web) :
                    LET f == Layer_forward(web[k], web[k].x)
                    IN  /\ f.ok
                        /\ k < Len(web) => web[k + 1].x = f.out
                        /\ k = Len(web) => out = Flatten(f.out)

\* C18: a gather changes no pool slot and, of a layer, at most the dense
\* values w and b (not wi, bi, x, d_z, grad_w or grad_b); gathering again,
\* with the indices and the pool as they are, changes nothing at all.
C18_GatherIdempotent ==
    [][ (pc = "idle" /\ last' = "gather") =>
          /\ pool' = pool
          /\ Len(web') = Len(web)
          /\ \A k \in 1 .. Len(web) :
                /\ web'[k] = [web[k] EXCEPT !.w = web'[k].w, !.b = web'[k].b]
                /\ Layer_gather(web'[k], pool') = web'[k]
          /\ Manifold_gather(web', pool') = web' ]_vars

\* a gather has returned on a web that a backwards pass had updated, with
\* non-zero weights and a non-zero gradient buffer to preserve
C18_Witness ==
    /\ last = "gather" /\ pc = "idle" /\ steps > 0
    /\ \E k \in 1 .. Len(web) : ~IsZero2(web[k].grad_w) /\ ~IsZero2(web[k].w)

\* C19: a train call that finds a non-empty history appends to it, asks the
\* predicate about the whole of it (what the earlier calls left, followed by
\* its own entries), and so stops after its first epoch when the predicate
\* is true of the old history followed by that epoch's loss.
C19_HistoryCarriesOver ==
    (Len(run.base) > 0 /\ run.executed > 0) =>
        /\ Len(losses) = Len(run.base) + run.executed
        /\ SubSeq(losses, 1, Len(run.base)) = run.base
        /\ run.fired = EarlyTerminate(early_terminate, losses)
        /\ EarlyTerminate(early_terminate, SubSeq(losses, 1, Len(run.base) + 1)) =>
              (run.executed = 1 /\ run.fired)

\* a second call with a budget of two epochs was stopped after its first by
\* the predicate that had stopped the first call
C19_Witness ==
    /\ last = "train" /\ pc = "idle"
    /\ Len(run.base) = 1 /\ ~RIsNaN(run.base[1])
    /\ run.budget = 2 /\ run.executed = 1 /\ run.fired

\* C20: on a Manifold built by new or dynamic on which neither until nor
\* until_some was called the predicate never fires, and every train call
\* that returns has executed exactly `epochs` epochs and appended exactly
\* `epochs` losses, whatever their values.
C20_DefaultNeverFires ==
    early_terminate.kind = "never" =>
        /\ ~run.fired
        /\ (last = "train" /\ pc = "idle") =>
              /\ run.executed = run.budget
              /\ Len(losses) = Len(run.base) + run.budget

\* a call with a budget of two epochs has returned under the constructors'
\* predicate, with a loss recorded for a processed pair
C20_Witness ==
    /\ early_terminate.kind = "never" /\ last = "train" /\ pc = "idle"
    /\ run.budget = 2 /\ run.executed = 2 /\ steps = 2
    /\ ~RIsNaN(losses[Len(losses)])

====
